---- MODULE Spec2Model ----
(***************************************************************************)
(* Model of the two maintenance scripts of the water-cooler worker:        *)
(*   scripts/reset_dependencies.py  (the dependency repair procedure)      *)
(*   scripts/finalize_merge.py      (the merge-finalization orchestrator)  *)
(* Both are sequential programs; every external command is an input whose  *)
(* outcome (executable missing, exit code, output) is chosen by the        *)
(* environment.  The orchestrator runs the repair procedure as a child     *)
(* process, which is modelled by running the repair actions between the    *)
(* launch and the return of the orchestrator's reset step.                 *)
(***************************************************************************)
EXTENDS Integers, Sequences, FiniteSets, TLC

VARIABLES
    prog,         \* which script the operator launched: "reset" or "finalize"
    runsLeft,     \* how many more times the operator will launch the repair
    cmdline,      \* repair: the command line (manager option and four flags)
    args,         \* repair: the parsed argparse namespace
    rpc,          \* repair: position in main()
    rexit,        \* repair: process exit status (meaningful when rpc = "done")
    manifest,     \* repair: the in-memory manifest dictionary
    disk,         \* package.json on disk: [exists, fmt, data]
    writes,       \* repair: number of save_manifest calls in this run
    nodeModules,  \* whether ROOT/node_modules exists
    lockfiles,    \* the set of lockfile names present in ROOT
    lookup,       \* repair: result of latest_version in this run
    prevLookup,   \* repair: result of latest_version in the previous run
    rcalls,       \* repair: the effects performed in this run, in order
    installCmd,   \* repair: the argv handed to run() by install_dependencies
    pre,          \* snapshot of the filesystem when the current run started
    fpc,          \* orchestrator: position in main()
    fexit,        \* orchestrator: process exit status (meaningful when done)
    trace,        \* orchestrator: steps and external commands started, in order
    bunOnPath,    \* whether shutil.which("bun") finds an executable
    public,       \* ROOT/public: "absent", "dir" or "file"
    index,        \* ROOT/public/index.html: "absent", "custom", "placeholder"
    clean,        \* orchestrator: result of working_tree_clean()
    prBase        \* orchestrator: the --base handed to gh pr create

rvars == <<cmdline, args, rpc, rexit, manifest, disk, writes, nodeModules,
           lockfiles, lookup, prevLookup, rcalls, installCmd>>
fvars == <<fpc, fexit, trace, bunOnPath, public, index, clean, prBase>>
vars == <<prog, runsLeft, pre, rvars, fvars>>

----------------------------------------------------------------------------
\* Bounds of the model.

\* Exit codes of external commands range over 0..MaxExit.
MaxExit == 2
\* Number of distinct versions the registry may report.
NumVersions == 2
\* Number of times the operator launches the repair procedure in a row.
MaxRuns == 2

ExitCodes == 0..MaxExit
RegistryNames == <<"4.2.0", "4.3.0", "4.4.0", "4.5.0">>
Versions == {RegistryNames[i] : i \in 1..NumVersions}
\* wrangler version strings a manifest may hold before the run
OldVersions == {"4.0.0", "^4.2.0"}

----------------------------------------------------------------------------
\* Process exit.

\* sys.exit(arg): a string argument is printed and the status is 1; an
\* integer argument is the status, truncated to eight bits.
ExitMsg == [kind |-> "msg", code |-> 0]
ExitCode(n) == [kind |-> "code", code |-> n]
ExitStatus(arg) == IF arg.kind = "msg" THEN 1 ELSE arg.code % 256

\* The outcome of starting an external command.
Missing == [kind |-> "missing", rc |-> 0]
Exited(n) == [kind |-> "exit", rc |-> n]
Outcomes == {Missing} \cup {Exited(n) : n \in ExitCodes}

\* an entry of a run's log: the step or command started and how it ended
Entry(cmd, kind, rc) == [cmd |-> cmd, kind |-> kind, rc |-> rc]
Ran(cmd, outcome) == Entry(cmd, outcome.kind, outcome.rc)

----------------------------------------------------------------------------
\* The manifest.

\* mutant: the sections searched in the opposite order
SectionsSwapped == <<"dependencies", "devDependencies">>
Sections == <<"devDependencies", "dependencies">>
SectionNames == {Sections[i] : i \in 1..Len(Sections)}
EmptyDeps == [k \in {} |-> ""]
NoManifest == [k \in {} |-> ""]

\* dict.setdefault(k, d): the dictionary afterwards
setdefault(m, k, d) == IF k \in DOMAIN m THEN m ELSE m @@ (k :> d)
\* d[k] = v on a dictionary: overwrite or append the key
setitem(d, k, v) == IF k \in DOMAIN d THEN [d EXCEPT ![k] = v] ELSE d @@ (k :> v)

\* the for/else loop of upgrade_wrangler over Sections[i..]
RECURSIVE upgrade_loop(_, _, _)
upgrade_loop(m, i, desired) ==
    IF i > Len(Sections)
    THEN LET m1 == setdefault(m, "devDependencies", EmptyDeps)
         IN [manifest |-> [m1 EXCEPT !["devDependencies"] = setitem(@, "wrangler", desired)],
             changed |-> TRUE]
    ELSE LET section == Sections[i]
             m1 == setdefault(m, section, EmptyDeps)
             deps == m1[section]
         IN IF "wrangler" \in DOMAIN deps
            THEN IF deps["wrangler"] # desired
                 THEN [manifest |-> [m1 EXCEPT ![section] = setitem(@, "wrangler", desired)],
                       changed |-> TRUE]
                 ELSE [manifest |-> m1, changed |-> FALSE]
            ELSE upgrade_loop(m1, i + 1, desired)

\* mutant: the caret is prepended whether or not --exact was given
Desired_always_caret(new_version, caret) == "^" \o new_version
\* desired = f"^{new_version}" if caret else new_version
Desired(new_version, caret) == IF caret THEN "^" \o new_version ELSE new_version

\* save_manifest: json.dump with indent=2 and a trailing newline
save_manifest(m) == [exists |-> TRUE, fmt |-> "indent2", data |-> m]

\* str.strip() on the registry output, a sequence of tokens of which " " and
\* "\n" are whitespace
IsSpace(t) == t \in {" ", "\n"}
RECURSIVE Strip(_)
Strip(s) ==
    IF s = <<>> THEN s
    ELSE IF IsSpace(Head(s)) THEN Strip(Tail(s))
    ELSE IF IsSpace(s[Len(s)]) THEN Strip(SubSeq(s, 1, Len(s) - 1))
    ELSE s

RECURSIVE Join(_)
Join(s) == IF s = <<>> THEN "" ELSE Head(s) \o Join(Tail(s))

\* what `npm view wrangler version` may do
RegistryOutputs == {<<>>, <<"\n">>} \cup {<<v, "\n">> : v \in Versions}
RegistryAnswers ==
    {[kind |-> "missing", rc |-> 0, out |-> <<>>]}
    \cup {[kind |-> "exit", rc |-> n, out |-> <<>>] : n \in ExitCodes \ {0}}
    \cup {[kind |-> "exit", rc |-> 0, out |-> o] : o \in RegistryOutputs}

\* how the registry query ended, as logged: executable missing, non-zero exit,
\* nothing but whitespace printed, or a version printed
AllSpace(out) == \A i \in 1..Len(out) : IsSpace(out[i])
NpmViewEntry(answer) ==
    Entry("npm view",
          IF answer.kind = "missing" THEN "missing"
          ELSE IF answer.rc # 0 THEN "exit"
          ELSE IF AllSpace(answer.out) THEN "blank" ELSE "version",
          answer.rc)

\* latest_version: "fail" stands for the RuntimeError it raises
latest_version(answer) ==
    IF answer.kind = "missing" \/ answer.rc # 0 THEN "fail"
    ELSE LET version == Join(Strip(answer.out))
         IN IF version = "" THEN "fail" ELSE version

----------------------------------------------------------------------------
\* Lockfiles and the install command.

Managers == {"npm", "pnpm", "bun"}
LockfileUniverse == {"package-lock.json", "pnpm-lock.yaml", "bun.lockb", "bun.lock", "yarn.lock"}

\* mutant: the bun row of the table lacks the binary lockfile
detect_lockfiles_bun_text_only(manager) ==
    CASE manager = "npm" -> {"package-lock.json"}
      [] manager = "pnpm" -> {"package-lock.json", "pnpm-lock.yaml"}
      [] manager = "bun" -> {"package-lock.json", "bun.lock"}
      [] OTHER -> {}
detect_lockfiles(manager) ==
    CASE manager = "npm" -> {"package-lock.json"}
      [] manager = "pnpm" -> {"package-lock.json", "pnpm-lock.yaml"}
      [] manager = "bun" -> {"package-lock.json", "bun.lockb", "bun.lock"}
      [] OTHER -> {}

\* DEFAULT_MANAGER, computed when the script is loaded
DefaultManager(files) == IF "bun.lock" \in files THEN "bun" ELSE "npm"

\* mutant: bun is given a lockfile-only flag like the other managers
install_cmd_bun_frozen(manager, frozen) ==
    LET cmd == <<manager, "install">>
    IN IF frozen /\ manager = "npm" THEN Append(cmd, "--package-lock-only")
       ELSE IF frozen /\ manager = "pnpm" THEN Append(cmd, "--lockfile-only")
       ELSE IF frozen /\ manager = "bun" THEN Append(cmd, "--frozen-lockfile")
       ELSE cmd
\* the argv install_dependencies builds
install_cmd(manager, frozen) ==
    LET cmd == <<manager, "install">>
    IN IF frozen /\ manager = "npm" THEN Append(cmd, "--package-lock-only")
       ELSE IF frozen /\ manager = "pnpm" THEN Append(cmd, "--lockfile-only")
       ELSE cmd

\* run(cmd): the exit status it terminates the process with, or "returns"
run(outcome) ==
    IF outcome.kind = "missing" THEN [exits |-> TRUE, status |-> ExitStatus(ExitMsg)]
    ELSE IF outcome.rc # 0 THEN [exits |-> TRUE, status |-> ExitStatus(ExitMsg)]
    ELSE [exits |-> FALSE, status |-> 0]

----------------------------------------------------------------------------
\* The dependency repair procedure: reset_dependencies.main().

NoArgs == [manager |-> "", skip_install |-> FALSE, keep_node_modules |-> FALSE,
           exact |-> FALSE, frozen_lock |-> FALSE]

Snapshot(d, nm, lf, pub, idx) ==
    [disk |-> d, nodeModules |-> nm, lockfiles |-> lf, public |-> pub, index |-> idx]

\* sys.exit / normal return of the repair process
RTerminate(status) == rpc' = "done" /\ rexit' = status

\* parse_args(): --manager defaults to DEFAULT_MANAGER
ParseArgs ==
    /\ rpc = "parse"
    /\ args' = [manager |-> IF cmdline.manager = "unset"
                            THEN DefaultManager(lockfiles) ELSE cmdline.manager,
                skip_install |-> cmdline.skip_install,
                keep_node_modules |-> cmdline.keep_node_modules,
                exact |-> cmdline.exact,
                frozen_lock |-> cmdline.frozen_lock]
    /\ rpc' = "load"
    /\ UNCHANGED <<prog, runsLeft, pre, cmdline, rexit, manifest, disk, writes,
                   nodeModules, lockfiles, lookup, prevLookup, rcalls, installCmd, fvars>>

\* manifest = load_manifest()
LoadManifest ==
    /\ rpc = "load"
    /\ IF ~disk.exists
       THEN /\ RTerminate(ExitStatus(ExitMsg))
            /\ UNCHANGED <<manifest, rcalls>>
       ELSE /\ manifest' = disk.data
            /\ rcalls' = Append(rcalls, Entry("load", "step", 0))
            /\ rpc' = "rm_node_modules"
            /\ UNCHANGED rexit
    /\ UNCHANGED <<prog, runsLeft, pre, cmdline, args, disk, writes, nodeModules,
                   lockfiles, lookup, prevLookup, installCmd, fvars>>

\* what `rm -rf node_modules` may do: exit code and whether the directory is
\* gone afterwards (exit code 0 means it is)
RmOutcomes == {[rc |-> n, gone |-> g] : n \in ExitCodes, g \in BOOLEAN} \
              {[rc |-> 0, gone |-> FALSE]}

\* mutant: only --keep-node-modules suppresses the removal
removal_suppressed_keep_only(a) == a.keep_node_modules
\* main's guard of remove_node_modules(), negated
removal_suppressed(a) == a.keep_node_modules \/ a.frozen_lock

\* mutant: a failed rm -rf is logged and the run goes on
rm_never_fatal(r) == FALSE
\* remove_node_modules: the condition of its sys.exit
rm_fatal(r) == r.rc # 0 /\ ~r.gone

\* if not args.keep_node_modules and not args.frozen_lock: remove_node_modules()
RemoveNodeModules ==
    /\ rpc = "rm_node_modules"
    /\ IF removal_suppressed(args) \/ ~nodeModules
       THEN /\ rpc' = "rm_lockfiles"
            /\ UNCHANGED <<rexit, nodeModules, rcalls>>
       ELSE \/ \* shutil.rmtree succeeds
               /\ nodeModules' = FALSE
               /\ rcalls' = Append(rcalls, Entry("rmtree", "ok", 0))
               /\ rpc' = "rm_lockfiles"
               /\ UNCHANGED rexit
            \/ \* shutil.rmtree raises OSError: retry via rm -rf
               \E r \in RmOutcomes :
                  /\ nodeModules' = ~r.gone
                  /\ rcalls' = rcalls \o <<Entry("rmtree", "oserror", 0),
                                             Ran("rm -rf", Exited(r.rc))>>
                  /\ IF rm_fatal(r)
                     THEN RTerminate(ExitStatus(ExitMsg))
                     ELSE rpc' = "rm_lockfiles" /\ UNCHANGED rexit
    /\ UNCHANGED <<prog, runsLeft, pre, cmdline, args, manifest, disk, writes,
                   lockfiles, lookup, prevLookup, installCmd, fvars>>

\* remove_lockfiles(args.manager)
RemoveLockfiles ==
    /\ rpc = "rm_lockfiles"
    /\ lockfiles' = lockfiles \ detect_lockfiles(args.manager)
    /\ rcalls' = Append(rcalls, Entry("remove_lockfiles", "step", 0))
    /\ rpc' = "upgrade"
    /\ UNCHANGED <<prog, runsLeft, pre, cmdline, args, rexit, manifest, disk, writes,
                   nodeModules, lookup, prevLookup, installCmd, fvars>>

\* mutant: the manifest is saved whether or not the entry changed
upgrade_wrangler_always_saves(m, answer, caret) ==
    LET new_version == latest_version(answer)
    IN IF new_version = "fail"
       THEN [manifest |-> m, changed |-> FALSE]
       ELSE [upgrade_loop(m, 1, Desired(new_version, caret)) EXCEPT !.changed = TRUE]
\* mutant: the RuntimeError of a failed lookup is not handled as "skip"; the
\* stripped output is used as the version whatever the query did
upgrade_wrangler_unguarded(m, answer, caret) ==
    upgrade_loop(m, 1, Desired(Join(Strip(answer.out)), caret))
\* upgrade_wrangler: the manifest afterwards and whether it is to be saved
upgrade_wrangler(m, answer, caret) ==
    LET new_version == latest_version(answer)
    IN IF new_version = "fail"
       THEN [manifest |-> m, changed |-> FALSE]
       ELSE upgrade_loop(m, 1, Desired(new_version, caret))

\* wrangler_updated = upgrade_wrangler(manifest, caret=not args.exact)
UpgradeWrangler ==
    /\ rpc = "upgrade"
    /\ \E answer \in RegistryAnswers :
          LET r == upgrade_wrangler(manifest, answer, ~args.exact)
          IN /\ lookup' = latest_version(answer)
             /\ manifest' = r.manifest
             /\ IF r.changed
                THEN /\ disk' = save_manifest(r.manifest)
                     /\ writes' = writes + 1
                     /\ rcalls' = rcalls \o <<NpmViewEntry(answer),
                                                Entry("save", "step", 0)>>
                ELSE /\ rcalls' = Append(rcalls, NpmViewEntry(answer))
                     /\ UNCHANGED <<disk, writes>>
    /\ rpc' = "install"
    /\ UNCHANGED <<prog, runsLeft, pre, cmdline, args, rexit, nodeModules, lockfiles,
                   prevLookup, installCmd, fvars>>

\* mutant: --skip-install is parsed but not honoured
install_never_skipped(a) == FALSE
\* main's `if args.skip_install: return`
install_skipped(a) == a.skip_install

\* mutant: a failed install restores the manifest file the run started with
InstallDependencies_rolls_back ==
    /\ rpc = "install"
    /\ IF install_skipped(args)
       THEN /\ RTerminate(0)
            /\ UNCHANGED <<rcalls, installCmd, disk>>
       ELSE \E outcome \in Outcomes :
               /\ installCmd' = install_cmd(args.manager, args.frozen_lock)
               /\ rcalls' = Append(rcalls, Ran("install", outcome))
               /\ RTerminate(IF run(outcome).exits THEN run(outcome).status ELSE 0)
               /\ disk' = IF run(outcome).exits THEN pre.disk ELSE disk
    /\ UNCHANGED <<prog, runsLeft, pre, cmdline, args, manifest, writes,
                   nodeModules, lockfiles, lookup, prevLookup, fvars>>

\* if args.skip_install: return; install_dependencies(...); normal exit
InstallDependencies ==
    /\ rpc = "install"
    /\ IF install_skipped(args)
       THEN /\ RTerminate(0)
            /\ UNCHANGED <<rcalls, installCmd>>
       ELSE \E outcome \in Outcomes :
               /\ installCmd' = install_cmd(args.manager, args.frozen_lock)
               /\ rcalls' = Append(rcalls, Ran("install", outcome))
               /\ RTerminate(IF run(outcome).exits THEN run(outcome).status ELSE 0)
    /\ UNCHANGED <<prog, runsLeft, pre, cmdline, args, manifest, disk, writes,
                   nodeModules, lockfiles, lookup, prevLookup, fvars>>

\* the operator launches the repair procedure again with the same command line
Rerun ==
    /\ prog = "reset"
    /\ rpc = "done"
    /\ runsLeft > 0
    /\ runsLeft' = runsLeft - 1
    /\ rpc' = "parse"
    /\ rexit' = 0
    /\ args' = NoArgs
    /\ manifest' = NoManifest
    /\ writes' = 0
    /\ prevLookup' = lookup
    /\ lookup' = "none"
    /\ rcalls' = <<>>
    /\ installCmd' = <<>>
    /\ pre' = Snapshot(disk, nodeModules, lockfiles, public, index)
    /\ UNCHANGED <<prog, cmdline, disk, nodeModules, lockfiles, fvars>>

----------------------------------------------------------------------------
\* The merge-finalization orchestrator: finalize_merge.main().

FTerminate(status) == fpc' = "done" /\ fexit' = status

\* mutant: every failure ends the process with the generic status 1
run_step_generic_status(outcome) ==
    IF outcome.kind = "missing" \/ outcome.rc # 0
    THEN [exits |-> TRUE, status |-> ExitStatus(ExitCode(1))]
    ELSE [exits |-> FALSE, status |-> 0]
\* run_step: the status it terminates the process with, or "returns"
run_step(outcome) ==
    IF outcome.kind = "missing" THEN [exits |-> TRUE, status |-> ExitStatus(ExitCode(1))]
    ELSE IF outcome.rc # 0 THEN [exits |-> TRUE, status |-> ExitStatus(ExitCode(outcome.rc))]
    ELSE [exits |-> FALSE, status |-> 0]

\* subprocess.run(..., check=True) outside any try: a missing executable or a
\* non-zero exit raises, and the uncaught exception ends the interpreter with
\* status 1
Raises(outcome) == outcome.kind = "missing" \/ outcome.rc # 0
UncaughtStatus == ExitStatus(ExitMsg)

\* mutant: a missing bun is reported but the run goes on
ensure_bun_ready_warns(onPath) == [exits |-> FALSE, status |-> 0]
\* ensure_bun_ready(): the status it terminates the process with, or "returns"
ensure_bun_ready(onPath) ==
    IF ~onPath THEN [exits |-> TRUE, status |-> ExitStatus(ExitCode(1))]
    ELSE [exits |-> FALSE, status |-> 0]

EnsureBunReady ==
    /\ fpc = "bun_check"
    /\ IF ensure_bun_ready(bunOnPath).exits
       THEN FTerminate(ensure_bun_ready(bunOnPath).status)
       ELSE fpc' = "reset" /\ UNCHANGED fexit
    /\ UNCHANGED <<prog, runsLeft, pre, rvars, trace, bunOnPath, public, index, clean, prBase>>

\* the command line of reset_step
ResetCmdline == [manager |-> "bun", skip_install |-> FALSE, keep_node_modules |-> FALSE,
                 exact |-> FALSE, frozen_lock |-> FALSE]

\* run_step(reset_step), first half: python3 is started (or is missing)
RunResetStep ==
    /\ fpc = "reset"
    /\ \/ /\ trace' = Append(trace, Ran("reset", Missing))
          /\ FTerminate(run_step(Missing).status)
          /\ UNCHANGED <<cmdline, rpc>>
       \/ /\ trace' = Append(trace, Entry("reset", "started", 0))
          /\ cmdline' = ResetCmdline
          /\ rpc' = "parse"
          /\ fpc' = "reset_wait"
          /\ UNCHANGED fexit
    /\ UNCHANGED <<prog, runsLeft, pre, args, rexit, manifest, disk, writes, nodeModules,
                   lockfiles, lookup, prevLookup, rcalls, installCmd,
                   bunOnPath, public, index, clean, prBase>>

\* run_step(reset_step), second half: the child has exited with rexit
ResetStepReturns ==
    /\ fpc = "reset_wait"
    /\ rpc = "done"
    /\ trace' = [trace EXCEPT ![Len(trace)] = Ran("reset", Exited(rexit))]
    /\ IF run_step(Exited(rexit)).exits
       THEN FTerminate(run_step(Exited(rexit)).status)
       ELSE fpc' = "public" /\ UNCHANGED fexit
    /\ UNCHANGED <<prog, runsLeft, pre, rvars, bunOnPath, public, index, clean, prBase>>

\* ensure_public_assets(): the directory and the index file afterwards
ensure_public_assets(pub, idx) ==
    IF pub # "absent"
    THEN [public |-> pub, index |-> idx]
    ELSE [public |-> "dir", index |-> IF idx = "absent" THEN "placeholder" ELSE idx]

EnsurePublicAssets ==
    /\ fpc = "public"
    /\ public' = ensure_public_assets(public, index).public
    /\ index' = ensure_public_assets(public, index).index
    /\ trace' = Append(trace, Entry("public", "step", 0))
    /\ fpc' = "test"
    /\ UNCHANGED <<prog, runsLeft, pre, rvars, fexit, bunOnPath, clean, prBase>>

\* run_step(test_step)
RunTestStep ==
    /\ fpc = "test"
    /\ \E outcome \in Outcomes :
          /\ trace' = Append(trace, Ran("test", outcome))
          /\ IF run_step(outcome).exits
             THEN FTerminate(run_step(outcome).status)
             ELSE fpc' = "stage" /\ UNCHANGED fexit
    /\ UNCHANGED <<prog, runsLeft, pre, rvars, bunOnPath, public, index, clean, prBase>>

\* run_step(stage_step)
RunStageStep ==
    /\ fpc = "stage"
    /\ \E outcome \in Outcomes :
          /\ trace' = Append(trace, Ran("git add", outcome))
          /\ IF run_step(outcome).exits
             THEN FTerminate(run_step(outcome).status)
             ELSE fpc' = "branch" /\ UNCHANGED fexit
    /\ UNCHANGED <<prog, runsLeft, pre, rvars, bunOnPath, public, index, clean, prBase>>

\* branch = get_current_branch()
GetCurrentBranch ==
    /\ fpc = "branch"
    /\ \E outcome \in Outcomes :
          /\ trace' = Append(trace, Ran("git rev-parse", outcome))
          /\ IF Raises(outcome)
             THEN FTerminate(UncaughtStatus)
             ELSE fpc' = "status" /\ UNCHANGED fexit
    /\ UNCHANGED <<prog, runsLeft, pre, rvars, bunOnPath, public, index, clean, prBase>>

\* clean = working_tree_clean()
WorkingTreeClean ==
    /\ fpc = "status"
    /\ \/ \E outcome \in Outcomes :
             /\ Raises(outcome)
             /\ trace' = Append(trace, Ran("git status", outcome))
             /\ FTerminate(UncaughtStatus)
             /\ UNCHANGED clean
       \/ \E empty \in BOOLEAN :
             /\ trace' = Append(trace, Entry("git status", IF empty THEN "clean" ELSE "dirty", 0))
             /\ clean' = empty
             /\ fpc' = "push"
             /\ UNCHANGED fexit
    /\ UNCHANGED <<prog, runsLeft, pre, rvars, bunOnPath, public, index, prBase>>

\* mutant: the push is attempted whatever the status check said
push_always(c) == TRUE
\* main's `if clean:` guard of the push
push_attempted(c) == c

\* mutant: a failed push is raised again instead of being reported
push_branch_reraises(outcome) ==
    [raises |-> outcome.kind = "missing" \/ outcome.rc # 0,
     pushed |-> outcome.kind = "exit" /\ outcome.rc = 0]
\* push_branch(branch): CalledProcessError is caught and gives False; a missing
\* git raises FileNotFoundError, which is not caught
push_branch(outcome) ==
    [raises |-> outcome.kind = "missing",
     pushed |-> outcome.kind = "exit" /\ outcome.rc = 0]

\* if clean: if push_branch(branch): ... else: skip
PushBranch ==
    /\ fpc = "push"
    /\ IF ~push_attempted(clean)
       THEN fpc' = "finish" /\ UNCHANGED <<fexit, trace>>
       ELSE \E outcome \in Outcomes :
               /\ trace' = Append(trace, Ran("git push", outcome))
               /\ IF push_branch(outcome).raises THEN FTerminate(UncaughtStatus)
                  ELSE IF ~push_branch(outcome).pushed THEN fpc' = "finish" /\ UNCHANGED fexit
                  ELSE fpc' = "pr" /\ UNCHANGED fexit
    /\ UNCHANGED <<prog, runsLeft, pre, rvars, bunOnPath, public, index, clean, prBase>>

\* what `gh repo view --json defaultBranch` may answer: a non-zero exit,
\* output that is not JSON, or a JSON object with or without the field
BranchNames == {"main", "develop"}
RepoViewAnswers ==
    {[rc |-> n, json |-> "none", value |-> ""] : n \in ExitCodes \ {0}}
    \cup {[rc |-> 0, json |-> "malformed", value |-> ""],
          [rc |-> 0, json |-> "object", value |-> ""]}
    \cup {[rc |-> 0, json |-> "object", value |-> b] : b \in BranchNames}

\* get_default_branch(): "" stands for None
get_default_branch(answer) ==
    IF answer.rc # 0 THEN ""
    ELSE IF answer.json = "malformed" THEN ""
    ELSE answer.value

\* ensure_gh_ready(): the probes made and the verdict
ensure_gh_ready(e) ==
    IF ~e.ghFound
    THEN [ready |-> FALSE, calls |-> <<Entry("which gh", "none", 0)>>]
    ELSE [ready |-> e.version = 0,
          calls |-> <<Entry("which gh", "found", 0), Ran("gh --version", Exited(e.version))>>]

\* mutant: a PR is created although gh pr view found one
ensure_pr_ignores_existing(e) ==
    LET gh == ensure_gh_ready(e)
        base == IF get_default_branch(e.repo) = "" THEN "main" ELSE get_default_branch(e.repo)
    IN IF ~gh.ready THEN [calls |-> gh.calls, base |-> ""]
       ELSE [calls |-> gh.calls \o <<Ran("gh pr view", Exited(e.view)),
                                      Entry("gh repo view", e.repo.json \o ":" \o e.repo.value, e.repo.rc),
                                      Ran("gh pr create", Exited(e.create))>>,
             base |-> base]
\* mutant: without a default branch from the lookup no PR is created
ensure_pr_requires_base(e) ==
    LET gh == ensure_gh_ready(e)
        base == get_default_branch(e.repo)
    IN IF ~gh.ready THEN [calls |-> gh.calls, base |-> ""]
       ELSE IF e.view = 0
       THEN [calls |-> Append(gh.calls, Ran("gh pr view", Exited(e.view))), base |-> ""]
       ELSE IF base = ""
       THEN [calls |-> gh.calls \o <<Ran("gh pr view", Exited(e.view)),
                                      Entry("gh repo view", e.repo.json \o ":" \o e.repo.value, e.repo.rc)>>,
             base |-> ""]
       ELSE [calls |-> gh.calls \o <<Ran("gh pr view", Exited(e.view)),
                                      Entry("gh repo view", e.repo.json \o ":" \o e.repo.value, e.repo.rc),
                                      Ran("gh pr create", Exited(e.create))>>,
             base |-> base]
\* ensure_pr(branch): the commands run and the base of the created PR
ensure_pr(e) ==
    LET gh == ensure_gh_ready(e)
        base == IF get_default_branch(e.repo) = "" THEN "main" ELSE get_default_branch(e.repo)
    IN IF ~gh.ready THEN [calls |-> gh.calls, base |-> ""]
       ELSE IF e.view = 0
       THEN [calls |-> Append(gh.calls, Ran("gh pr view", Exited(e.view))), base |-> ""]
       ELSE [calls |-> gh.calls \o <<Ran("gh pr view", Exited(e.view)),
                                      Entry("gh repo view", e.repo.json \o ":" \o e.repo.value, e.repo.rc),
                                      Ran("gh pr create", Exited(e.create))>>,
             base |-> base]

GhEnvs == [ghFound : BOOLEAN, version : ExitCodes, view : ExitCodes,
           repo : RepoViewAnswers, create : ExitCodes]

EnsurePr ==
    /\ fpc = "pr"
    /\ \E e \in GhEnvs :
          /\ trace' = trace \o ensure_pr(e).calls
          /\ prBase' = ensure_pr(e).base
    /\ fpc' = "finish"
    /\ UNCHANGED <<prog, runsLeft, pre, rvars, fexit, bunOnPath, public, index, clean>>

\* the closing "Next actions" lines, then the interpreter exits normally
Finish ==
    /\ fpc = "finish"
    /\ FTerminate(0)
    /\ UNCHANGED <<prog, runsLeft, pre, rvars, trace, bunOnPath, public, index, clean, prBase>>

----------------------------------------------------------------------------
\* Initial states.

WranglerOpts == {EmptyDeps} \cup {("wrangler" :> v) : v \in OldVersions}
OtherOpts == {EmptyDeps, ("vitest" :> "^1.0.0")}
SectionDicts == {w @@ o : w \in WranglerOpts, o \in OtherOpts}
SectionChoices == {[present |-> FALSE, deps |-> EmptyDeps]}
                  \cup {[present |-> TRUE, deps |-> d] : d \in SectionDicts}
MakeManifest(dev, deps) ==
    ("name" :> "water-cooler")
    @@ (IF dev.present THEN ("devDependencies" :> dev.deps) ELSE EmptyDeps)
    @@ (IF deps.present THEN ("dependencies" :> deps.deps) ELSE EmptyDeps)
Manifests == {MakeManifest(a, b) : a \in SectionChoices, b \in SectionChoices}
Authored(m) == [exists |-> TRUE, fmt |-> "authored", data |-> m]
NoFile == [exists |-> FALSE, fmt |-> "none", data |-> NoManifest]
Disks == {NoFile} \cup {Authored(m) : m \in Manifests}
\* the manifest of the specification's scenario, and one without wrangler
ScenarioManifest == ("devDependencies" :> ("wrangler" :> "4.0.0"))
TypicalDisks == {NoFile, Authored(ScenarioManifest),
                 Authored(("name" :> "water-cooler") @@ ("dependencies" :> ("vitest" :> "^1.0.0")))}

Cmdlines == [manager : Managers \cup {"unset"}, skip_install : BOOLEAN,
             keep_node_modules : BOOLEAN, exact : BOOLEAN, frozen_lock : BOOLEAN]

\* public/index.html exists only inside a directory
PublicStates == {<<"absent", "absent">>, <<"file", "absent">>, <<"dir", "absent">>,
                 <<"dir", "custom">>, <<"dir", "placeholder">>}

InitCommon ==
    /\ args = NoArgs
    /\ rexit = 0
    /\ manifest = NoManifest
    /\ writes = 0
    /\ lookup = "none"
    /\ prevLookup = "none"
    /\ rcalls = <<>>
    /\ installCmd = <<>>
    /\ fexit = 0
    /\ trace = <<>>
    /\ clean = FALSE
    /\ prBase = ""
    /\ pre = Snapshot(disk, nodeModules, lockfiles, public, index)

\* the operator runs the repair procedure, possibly several times, on any
\* manifest
InitRepairManifests ==
    /\ prog = "reset"
    /\ runsLeft = MaxRuns - 1
    /\ cmdline \in {c \in Cmdlines : c.manager = "npm" /\ ~c.keep_node_modules /\ ~c.frozen_lock}
    /\ disk \in Disks
    /\ nodeModules = TRUE
    /\ lockfiles = {"package-lock.json", "yarn.lock"}
    /\ rpc = "parse"
    /\ fpc = "idle"
    /\ bunOnPath = TRUE
    /\ public = "absent" /\ index = "absent"
    /\ InitCommon

\* the operator runs the repair procedure once with any command line on any
\* set of install artifacts
InitRepairFiles ==
    /\ prog = "reset"
    /\ runsLeft = 0
    /\ cmdline \in Cmdlines
    /\ disk \in TypicalDisks \ {NoFile}
    /\ nodeModules \in BOOLEAN
    /\ lockfiles \in SUBSET LockfileUniverse
    /\ rpc = "parse"
    /\ fpc = "idle"
    /\ bunOnPath = TRUE
    /\ public = "absent" /\ index = "absent"
    /\ InitCommon

\* the operator runs the orchestrator
InitFinalize ==
    /\ prog = "finalize"
    /\ runsLeft = 0
    /\ cmdline = ResetCmdline
    /\ disk \in TypicalDisks
    /\ nodeModules \in BOOLEAN
    /\ lockfiles = {"bun.lock", "yarn.lock"}
    /\ rpc = "idle"
    /\ fpc = "bun_check"
    /\ bunOnPath \in BOOLEAN
    /\ \E p \in PublicStates : public = p[1] /\ index = p[2]
    /\ InitCommon

Init == InitRepairManifests \/ InitRepairFiles \/ InitFinalize

Next ==
    \/ ParseArgs
    \/ LoadManifest
    \/ RemoveNodeModules
    \/ RemoveLockfiles
    \/ UpgradeWrangler
    \/ InstallDependencies
    \/ Rerun
    \/ EnsureBunReady
    \/ RunResetStep
    \/ ResetStepReturns
    \/ EnsurePublicAssets
    \/ RunTestStep
    \/ RunStageStep
    \/ GetCurrentBranch
    \/ WorkingTreeClean
    \/ PushBranch
    \/ EnsurePr
    \/ Finish

Spec == Init /\ [][Next]_vars

----------------------------------------------------------------------------
\* Properties.

Idx(log) == 1..Len(log)
Has(log, cmd) == \E i \in Idx(log) : log[i].cmd = cmd
Failed(e) == e.kind = "exit" /\ e.rc # 0
\* the upgrade step of the current run has been executed
Upgraded == rpc \in {"install", "done"} /\ lookup # "none"
\* the manifest the current run loaded
Loaded == pre.disk.data

\* the wrangler entry found first in the order of the sections ("" if none)
FirstWrangler(m) ==
    IF "devDependencies" \in DOMAIN m /\ "wrangler" \in DOMAIN m["devDependencies"]
    THEN m["devDependencies"]["wrangler"]
    ELSE IF "dependencies" \in DOMAIN m /\ "wrangler" \in DOMAIN m["dependencies"]
    THEN m["dependencies"]["wrangler"]
    ELSE ""
InSection(m, section) == section \in DOMAIN m /\ "wrangler" \in DOMAIN m[section]
SectionOf(m, section) == IF section \in DOMAIN m THEN m[section] ELSE EmptyDeps

\* C1: the orchestrator runs reset, public assets, test, git add in this order
\* before anything else, and when the reset, test or git-add command returns a
\* non-zero exit code n nothing is started after it and the process ends with
\* exit code n.
StepOrder == <<"reset", "public", "test", "git add">>
C1_FailFastInOrder ==
    /\ \A i \in Idx(trace) :
          IF i <= Len(StepOrder) THEN trace[i].cmd = StepOrder[i]
          ELSE \A j \in Idx(StepOrder) : trace[i].cmd # StepOrder[j]
    /\ \A i \in Idx(trace) :
          (trace[i].cmd \in {"reset", "test", "git add"} /\ Failed(trace[i]))
             => /\ i = Len(trace)
                /\ fpc = "done"
                /\ fexit = trace[i].rc
C1_Witness ==
    /\ fpc = "done"
    /\ fexit = 2
    /\ Len(trace) = 3
    /\ trace[3] = Entry("test", "exit", 2)

\* C2 (as claimed): after a run of the repair procedure the manifest on disk
\* differs from the loaded one in at most the wrangler value of one section;
\* no other key or section, not even an empty one, is added, removed or changed.
OnlyWranglerDiffers(old, new) ==
    \E section \in SectionNames :
       /\ DOMAIN new \ {section} = DOMAIN old \ {section}
       /\ \A k \in DOMAIN old \ {section} : new[k] = old[k]
       /\ section \in DOMAIN old => section \in DOMAIN new
       /\ (section \in DOMAIN new /\ section \notin DOMAIN old)
             => "wrangler" \in DOMAIN new[section]
       /\ DOMAIN SectionOf(new, section) \ {"wrangler"}
             = DOMAIN SectionOf(old, section) \ {"wrangler"}
       /\ \A k \in DOMAIN SectionOf(old, section) \ {"wrangler"} :
             SectionOf(new, section)[k] = SectionOf(old, section)[k]
C2_OnlyWranglerChanges ==
    (rpc = "done" /\ pre.disk.exists) => OnlyWranglerDiffers(Loaded, disk.data)

\* C3: once the status check after staging reports a non-clean tree, neither
\* git push nor any gh command is invoked in that run.
GhCommands == {"gh --version", "gh pr view", "gh repo view", "gh pr create"}
C3_DirtyTreeNoPush ==
    (\E i \in Idx(trace) : trace[i].cmd = "git status" /\ trace[i].kind = "dirty")
       => \A j \in Idx(trace) : trace[j].cmd \notin GhCommands \cup {"git push", "which gh"}
C3_Witness ==
    /\ fpc = "done"
    /\ fexit = 0
    /\ trace[Len(trace)] = Entry("git status", "dirty", 0)

\* C4: when the wrangler entry found first already equals the target version
\* string, save_manifest is not called and the file stays as it was; a second
\* run with the same registry answer and command line writes nothing.
C4_NoRewriteWhenCurrent ==
    /\ (Upgraded /\ lookup # "fail"
        /\ FirstWrangler(Loaded) = Desired(lookup, ~args.exact))
          => (writes = 0 /\ disk = pre.disk /\ ~Has(rcalls, "save"))
    /\ (Upgraded /\ prevLookup # "none" /\ lookup = prevLookup)
          => (writes = 0 /\ disk = pre.disk /\ ~Has(rcalls, "save"))
C4_Witness ==
    /\ rpc = "done"
    /\ prevLookup = "4.3.0"
    /\ lookup = "4.3.0"
    /\ disk.fmt = "indent2"
    /\ writes = 0

\* C5 (as claimed): when the install command exits with a non-zero code n the
\* repair procedure exits with code n, and it exits 0 only if nothing fatal
\* happened.
C5_InstallCodePropagated ==
    rpc = "done" =>
       /\ \A i \in Idx(rcalls) :
             (rcalls[i].cmd = "install" /\ Failed(rcalls[i])) => rexit = rcalls[i].rc
       /\ rexit = 0 =>
             /\ pre.disk.exists
             /\ \A i \in Idx(rcalls) :
                   rcalls[i].cmd = "install" => rcalls[i] = Ran("install", Exited(0))

\* C6 (as claimed): when the public-assets step completes, the directory public
\* and the file public/index.html exist, and an index.html that existed before
\* is unchanged.
C6_PublicAssetsExist ==
    Has(trace, "public") =>
       /\ public = "dir"
       /\ index # "absent"
       /\ pre.index # "absent" => index = pre.index

\* C7: when bun is not on PATH the orchestrator ends with a non-zero exit code
\* before any command is run and before anything on disk is modified.
C7_NoBunNoEffect ==
    (prog = "finalize" /\ ~bunOnPath) =>
       /\ fpc \in {"bun_check", "done"}
       /\ fpc = "done" => fexit # 0
       /\ trace = <<>>
       /\ rcalls = <<>>
       /\ rpc = "idle"
       /\ Snapshot(disk, nodeModules, lockfiles, public, index) = pre
C7_Witness == prog = "finalize" /\ ~bunOnPath /\ fpc = "done" /\ fexit = 1

\* C8: with registry version v the target string is stored under wrangler in
\* devDependencies if wrangler was there, otherwise in dependencies if it was
\* there, otherwise it is inserted into devDependencies; with wrangler in both
\* sections only the devDependencies entry changes.
StoredIn(m, section, value) == InSection(m, section) /\ m[section]["wrangler"] = value
C8_Placement ==
    (Upgraded /\ lookup # "fail") =>
       LET target == Desired(lookup, ~args.exact)
       IN \A m \in {manifest, disk.data} :
             IF InSection(Loaded, "devDependencies")
             THEN /\ StoredIn(m, "devDependencies", target)
                  /\ InSection(Loaded, "dependencies")
                        => StoredIn(m, "dependencies", Loaded["dependencies"]["wrangler"])
                  /\ InSection(m, "dependencies") => InSection(Loaded, "dependencies")
             ELSE IF InSection(Loaded, "dependencies")
             THEN /\ StoredIn(m, "dependencies", target)
                  /\ ~InSection(m, "devDependencies")
             ELSE /\ StoredIn(m, "devDependencies", target)
                  /\ ~InSection(m, "dependencies")
C8_Witness ==
    /\ Upgraded
    /\ lookup = "4.3.0"
    /\ InSection(Loaded, "devDependencies")
    /\ InSection(Loaded, "dependencies")
    /\ Loaded["dependencies"]["wrangler"] = "4.0.0"
    /\ disk.data["devDependencies"]["wrangler"] = "^4.3.0"
    /\ disk.data["dependencies"]["wrangler"] = "4.0.0"

\* C9: a failed registry lookup (npm missing, non-zero exit, empty output) is
\* not fatal: the manifest file is not written, the run goes on to the install
\* step unless --skip-install is given, and it can still end with exit code 0.
LookupFailed ==
    \E i \in Idx(rcalls) :
       /\ rcalls[i].cmd = "npm view"
       /\ rcalls[i].kind \in {"missing", "blank"} \/ rcalls[i].rc # 0
C9_LookupFailureNotFatal ==
    LookupFailed =>
       /\ lookup = "fail"
       /\ writes = 0
       /\ disk = pre.disk
       /\ manifest = Loaded
       /\ rpc \in {"install", "done"}
       /\ rpc = "done" =>
             IF args.skip_install
             THEN rexit = 0 /\ ~Has(rcalls, "install")
             ELSE /\ rcalls[Len(rcalls)].cmd = "install"
                  /\ rcalls[Len(rcalls)] = Ran("install", Exited(0)) => rexit = 0
C9_Witness ==
    /\ LookupFailed
    /\ rpc = "done"
    /\ rexit = 0
    /\ rcalls[Len(rcalls)] = Ran("install", Exited(0))

\* C10: gh pr create is invoked at most once and only after, in this order,
\* the tree was reported clean, git push succeeded, gh was found, gh --version
\* returned 0 and gh pr view returned non-zero; when gh pr view returns 0 no PR
\* is created.
C10_PrCreateGuarded ==
    /\ Cardinality({i \in Idx(trace) : trace[i].cmd = "gh pr create"}) <= 1
    /\ \A k \in Idx(trace) :
          trace[k].cmd = "gh pr create" =>
             \E a \in 1..(k - 1) :
                /\ trace[a] = Entry("git status", "clean", 0)
                /\ \E b \in (a + 1)..(k - 1) :
                      /\ trace[b] = Ran("git push", Exited(0))
                      /\ \E c \in (b + 1)..(k - 1) :
                            /\ trace[c] = Entry("which gh", "found", 0)
                            /\ \E d \in (c + 1)..(k - 1) :
                                  /\ trace[d] = Ran("gh --version", Exited(0))
                                  /\ \E e \in (d + 1)..(k - 1) :
                                        trace[e].cmd = "gh pr view" /\ Failed(trace[e])
    /\ \A i \in Idx(trace) :
          trace[i] = Ran("gh pr view", Exited(0)) => ~Has(trace, "gh pr create")
C10_Witness ==
    /\ fpc = "done"
    /\ Has(trace, "gh pr create")
    /\ trace[Len(trace)] = Ran("gh pr create", Exited(0))

\* C11: once reset, test and staging succeeded and the branch and status
\* queries succeeded, the orchestrator reaches its end and exits with code 0
\* whatever git push (run, with any exit code), the gh check, the existing-PR
\* query, the default-branch lookup and the PR creation do.
StatusAnswered ==
    \E i \in Idx(trace) : trace[i].cmd = "git status" /\ trace[i].kind \in {"clean", "dirty"}
PushNotStarted == \E i \in Idx(trace) : trace[i] = Ran("git push", Missing)
C11_TailNeverFatal ==
    (StatusAnswered /\ ~PushNotStarted) =>
       /\ fpc \in {"push", "pr", "finish", "done"}
       /\ fpc = "done" => fexit = 0
       /\ fpc # "done" => ENABLED (PushBranch \/ EnsurePr \/ Finish)
C11_Witness ==
    /\ fpc = "done"
    /\ fexit = 0
    /\ \E i \in Idx(trace) : trace[i] = Ran("git push", Exited(2))

\* C12: for registry version v the string written for wrangler is v with
\* --exact and "^" followed by v without it; the manifest
\* {devDependencies: {wrangler: 4.0.0}} with registry 4.2.0 and default flags
\* becomes {devDependencies: {wrangler: ^4.2.0}}.
C12_VersionString ==
    (Upgraded /\ lookup # "fail") =>
       /\ args.exact => FirstWrangler(disk.data) = lookup
       /\ ~args.exact => FirstWrangler(disk.data) = "^" \o lookup
       /\ writes = 1 => FirstWrangler(disk.data) # FirstWrangler(Loaded)
       /\ (Loaded = ("devDependencies" :> ("wrangler" :> "4.0.0"))
           /\ lookup = "4.2.0" /\ ~args.exact)
             => disk.data = ("devDependencies" :> ("wrangler" :> "^4.2.0"))
C12_Witness ==
    /\ Upgraded
    /\ ~args.exact
    /\ lookup = "4.2.0"
    /\ Loaded = ("devDependencies" :> ("wrangler" :> "4.0.0"))
    /\ disk = save_manifest(("devDependencies" :> ("wrangler" :> "^4.2.0")))

\* C13: in every run of the repair procedure the effects occur in the order
\* manifest load, node_modules removal, lockfile removal, registry query and
\* manifest write, install; install is invoked at most once, only after all
\* of them, and never with --skip-install.
Rank(cmd) ==
    CASE cmd = "load" -> 1
      [] cmd = "rmtree" -> 2
      [] cmd = "rm -rf" -> 3
      [] cmd = "remove_lockfiles" -> 4
      [] cmd = "npm view" -> 5
      [] cmd = "save" -> 6
      [] cmd = "install" -> 7
      [] OTHER -> 0
C13_RepairOrder ==
    /\ \A i \in Idx(rcalls) : Rank(rcalls[i].cmd) > 0
    /\ \A i, j \in Idx(rcalls) : i < j => Rank(rcalls[i].cmd) < Rank(rcalls[j].cmd)
    /\ Has(rcalls, "install") =>
          /\ ~cmdline.skip_install
          /\ rcalls[Len(rcalls)].cmd = "install"
          /\ Has(rcalls, "load")
          /\ Has(rcalls, "remove_lockfiles")
          /\ Has(rcalls, "npm view")
          /\ (pre.nodeModules /\ ~cmdline.keep_node_modules /\ ~cmdline.frozen_lock)
                => Has(rcalls, "rmtree")
          /\ disk # pre.disk => Has(rcalls, "save")
    /\ (rpc = "done" /\ rexit = 0 /\ ~cmdline.skip_install) => Has(rcalls, "install")
C13_Witness ==
    /\ rpc = "done"
    /\ Len(rcalls) = 7
    /\ rcalls[3].cmd = "rm -rf"
    /\ rcalls[6].cmd = "save"
    /\ rcalls[7] = Ran("install", Exited(0))

\* C14: when node_modules exists and its deletion is not suppressed, a failed
\* first removal is always followed by the rm -rf retry; if that also fails
\* (non-zero exit, directory still there) the procedure terminates fatally
\* before any lockfile is deleted, the manifest written or install run; every
\* run that proceeds past the step has no node_modules left.
PastRemoval == rpc \in {"rm_lockfiles", "upgrade", "install"} \/ Has(rcalls, "remove_lockfiles")
C14_NodeModulesRemoval ==
    /\ \A i \in Idx(rcalls) :
          rcalls[i] = Entry("rmtree", "oserror", 0)
             => (i < Len(rcalls) /\ rcalls[i + 1].cmd = "rm -rf")
    /\ \A i \in Idx(rcalls) :
          (rcalls[i].cmd = "rm -rf" /\ rcalls[i].rc # 0 /\ nodeModules) =>
             /\ i = Len(rcalls)
             /\ rpc = "done"
             /\ rexit # 0
             /\ lockfiles = pre.lockfiles
             /\ disk = pre.disk
             /\ writes = 0
    /\ (pre.nodeModules /\ ~cmdline.keep_node_modules /\ ~cmdline.frozen_lock /\ PastRemoval)
          => (~nodeModules /\ Has(rcalls, "rmtree"))
C14_Witness ==
    /\ rpc = "done"
    /\ rexit = 1
    /\ nodeModules
    /\ pre.lockfiles # {}
    /\ rcalls = <<Entry("load", "step", 0), Entry("rmtree", "oserror", 0),
                  Ran("rm -rf", Exited(1))>>

\* C15: after the lockfile-removal step with manager m none of the lockfiles of
\* m's row of the table exists, every other lockfile is untouched, and a table
\* lockfile that was absent is skipped without ending the run.  The files are
\* compared up to the start of the install command, which may write its own.
TableRow(m) ==
    IF m = "npm" THEN {"package-lock.json"}
    ELSE IF m = "pnpm" THEN {"package-lock.json", "pnpm-lock.yaml"}
    ELSE IF m = "bun" THEN {"package-lock.json", "bun.lockb", "bun.lock"}
    ELSE {}
C15_LockfilesRemoved ==
    Has(rcalls, "remove_lockfiles") =>
       /\ args.manager \in Managers
       /\ ~Has(rcalls, "install") =>
             /\ lockfiles \cap TableRow(args.manager) = {}
             /\ lockfiles = pre.lockfiles \ TableRow(args.manager)
       /\ rpc \in {"upgrade", "install", "done"}
       /\ rpc = "done" => Has(rcalls, "npm view")
C15_Witness ==
    /\ rpc = "upgrade"
    /\ args.manager = "bun"
    /\ pre.lockfiles = {"bun.lockb", "yarn.lock", "pnpm-lock.yaml"}
    /\ lockfiles = {"yarn.lock", "pnpm-lock.yaml"}

\* C16: with --frozen-lock npm is run with --package-lock-only and pnpm with
\* --lockfile-only while bun is run as plain `bun install`; without the flag
\* every manager is run as `<manager> install`.
C16_InstallCommand ==
    /\ ~Has(rcalls, "install") => installCmd = <<>>
    /\ Has(rcalls, "install") =>
          /\ args.manager \in Managers
          /\ ~args.frozen_lock => installCmd = <<args.manager, "install">>
          /\ (args.frozen_lock /\ args.manager = "npm")
                => installCmd = <<"npm", "install", "--package-lock-only">>
          /\ (args.frozen_lock /\ args.manager = "pnpm")
                => installCmd = <<"pnpm", "install", "--lockfile-only">>
          /\ (args.frozen_lock /\ args.manager = "bun")
                => installCmd = <<"bun", "install">>
C16_Witness ==
    /\ rpc = "done"
    /\ args.frozen_lock
    /\ args.manager = "bun"
    /\ installCmd = <<"bun", "install">>
    /\ rcalls[Len(rcalls)] = Ran("install", Exited(0))

\* C17: when the install command fails after the upgrade step wrote a new
\* wrangler version, the procedure ends with the file still holding the new
\* version and with the deleted lockfiles and node_modules still deleted:
\* nothing the run did is undone.
InstallFailed ==
    /\ rpc = "done"
    /\ Has(rcalls, "install")
    /\ rcalls[Len(rcalls)] # Ran("install", Exited(0))
C17_NoRollback ==
    (InstallFailed /\ Has(rcalls, "save")) =>
       /\ rexit # 0
       /\ disk = save_manifest(manifest)
       /\ disk # pre.disk
       /\ FirstWrangler(disk.data) = (IF args.exact THEN lookup ELSE "^" \o lookup)
       /\ FirstWrangler(disk.data) # FirstWrangler(Loaded)
       /\ lockfiles = pre.lockfiles \ TableRow(args.manager)
       /\ Has(rcalls, "rmtree") => ~nodeModules
C17_Witness ==
    /\ InstallFailed
    /\ Has(rcalls, "save")
    /\ Has(rcalls, "rmtree")
    /\ pre.nodeModules /\ ~nodeModules
    /\ "package-lock.json" \in pre.lockfiles \ lockfiles
    /\ FirstWrangler(Loaded) = "4.0.0"
    /\ FirstWrangler(disk.data) = "^4.3.0"

\* C18: node_modules removal is attempted exactly when neither
\* --keep-node-modules nor --frozen-lock is given; --frozen-lock alone leaves
\* node_modules untouched for every manager, bun included, whose install is
\* still the full "bun install"; the lockfiles are deleted whatever the four
\* flags are, --skip-install included.
RemovalAttempted == Has(rcalls, "rmtree") \/ Has(rcalls, "rm -rf")
C18_RemovalFlags ==
    /\ RemovalAttempted => (~args.keep_node_modules /\ ~args.frozen_lock)
    /\ (PastRemoval /\ pre.nodeModules /\ ~args.keep_node_modules /\ ~args.frozen_lock)
          => Has(rcalls, "rmtree")
    /\ (rpc # "parse" /\ (args.keep_node_modules \/ args.frozen_lock))
          => nodeModules = pre.nodeModules
    /\ (Has(rcalls, "install") /\ args.frozen_lock /\ args.manager = "bun")
          => (installCmd = <<"bun", "install">> /\ ~RemovalAttempted)
    /\ rpc \in {"upgrade", "install"} => Has(rcalls, "remove_lockfiles")
    /\ (rpc = "done" /\ rexit = 0) =>
          /\ Has(rcalls, "remove_lockfiles")
          /\ ~Has(rcalls, "install") => lockfiles = pre.lockfiles \ TableRow(args.manager)
C18_Witness ==
    /\ rpc = "done" /\ rexit = 0
    /\ args.frozen_lock /\ ~args.keep_node_modules /\ args.skip_install /\ args.exact
    /\ args.manager = "bun"
    /\ pre.nodeModules /\ nodeModules
    /\ "bun.lock" \in pre.lockfiles \ lockfiles
    /\ ~RemovalAttempted

\* C19: when a PR has to be created, the base handed to "gh pr create" is the
\* default branch the lookup returned when it succeeded with that field, and
\* "main" when the lookup exited non-zero, printed malformed JSON or gave no
\* default-branch value; the lookup's failure neither ends the run nor
\* prevents the creation attempt.
LookupGave(entry, b) == entry.rc = 0 /\ entry.kind = "object:" \o b
C19_BaseBranch ==
    \A i \in Idx(trace) :
       /\ (trace[i].cmd = "gh pr view" /\ trace[i].rc # 0) =>
             (i < Len(trace) /\ trace[i + 1].cmd = "gh repo view")
       /\ trace[i].cmd = "gh repo view" =>
             /\ i < Len(trace)
             /\ trace[i + 1].cmd = "gh pr create"
             /\ \A b \in BranchNames : LookupGave(trace[i], b) => prBase = b
             /\ (\A b \in BranchNames : ~LookupGave(trace[i], b)) => prBase = "main"
             /\ fpc \in {"finish", "done"}
             /\ fpc = "finish" => ENABLED Finish
             /\ fpc = "done" => fexit = 0
C19_Witness ==
    /\ fpc = "done"
    /\ prBase = "main"
    /\ \E i \in Idx(trace) :
          /\ trace[i] = Entry("gh repo view", "malformed:", 0)
          /\ i < Len(trace)
          /\ trace[i + 1] = Ran("gh pr create", Exited(0))

====
